---- MODULE Spec2Model ----
(***************************************************************************)
(* contract-puller (src/index.js): fetch a verified contract from an       *)
(* explorer API, follow one proxy hop, write the source files and keep     *)
(* results.json, the address-keyed manifest of the output directory.       *)
(*                                                                         *)
(* Text (a JS string) is a sequence of tokens: a single character, a run   *)
(* of plain characters, or one quoted JSON string literal with its payload.*)
(* JSON.parse and JSON.stringify work on these token sequences (white      *)
(* space, which JSON.parse skips, is left out of the rendering).           *)
(***************************************************************************)
EXTENDS Integers, Sequences, FiniteSets, TLC

\* ------------------------------------------------------------------ text

\* one character
C(ch) == [k |-> "c", v |-> ch, q |-> <<>>]
\* a run of plain characters
W(w) == [k |-> "w", v |-> w, q |-> <<>>]
\* a quoted string literal "..." whose (unescaped) payload is the text s
Q(s) == [k |-> "s", v |-> "", q |-> s]
\* the text of one word
T(w) == <<W(w)>>

\* ------------------------------------------------------------- JS values

Undef == [t |-> "undefined", s |-> <<>>, m |-> <<>>]
Null == [t |-> "null", s |-> <<>>, m |-> <<>>]
Bool(b) == [t |-> IF b THEN "true" ELSE "false", s |-> <<>>, m |-> <<>>]
Str(s) == [t |-> "string", s |-> s, m |-> <<>>]
\* an object: its own properties in insertion order, each [k |-> key, v |-> value]
Obj(m) == [t |-> "object", s |-> <<>>, m |-> m]
\* an array: its elements, each [k |-> <<>>, v |-> value]
Arr(m) == [t |-> "array", s |-> <<>>, m |-> m]
P(key, val) == [k |-> key, v |-> val]

\* JS truthiness (the operand of !x, x && y, x || y, x ? a : b)
Truthy(x) ==
    /\ x.t \notin {"undefined", "null", "false"}
    /\ ~(x.t = "string" /\ x.s = <<>>)

\* typeof x === 'object'
TypeofObject(x) == x.t \in {"object", "array", "null"}

HasProp(x, key) == x.t = "object" /\ \E j \in 1..Len(x.m) : x.m[j].k = key

\* x.key (x neither null nor undefined): an own property of an object,
\* undefined on a string, a boolean or an array
Get(x, key) ==
    IF HasProp(x, key)
    THEN x.m[CHOOSE j \in 1..Len(x.m) : x.m[j].k = key].v
    ELSE Undef

\* x.key throws a TypeError
GetThrows(x) == x.t \in {"undefined", "null"}

\* members m after m[key] = val: an existing key keeps its place
PropSet(m, key, val) ==
    IF \E j \in 1..Len(m) : m[j].k = key
    THEN [j \in 1..Len(m) |-> IF m[j].k = key THEN P(key, val) ELSE m[j]]
    ELSE Append(m, P(key, val))

\* `${x}` of a string, undefined or null
ToText(x) ==
    CASE x.t = "string" -> x.s
      [] x.t = "undefined" -> T("undefined")
      [] x.t = "null" -> T("null")
      [] x.t = "true" -> T("true")
      [] x.t = "false" -> T("false")
      [] OTHER -> T("[object Object]")

\* ------------------------------------------------------------ JSON.parse

ParseFail == [ok |-> FALSE, v |-> Undef, i |-> 0]
ParseOk(val, i) == [ok |-> TRUE, v |-> val, i |-> i]

RECURSIVE ParseValue(_, _), ParseMembers(_, _, _), ParseElements(_, _, _)

\* one JSON value starting at token i of txt; i is then the next position
ParseValue(txt, i) ==
    IF i > Len(txt) THEN ParseFail
    ELSE LET tok == txt[i] IN
         CASE tok.k = "s" -> ParseOk(Str(tok.q), i + 1)
           [] tok = W("null") -> ParseOk(Null, i + 1)
           [] tok = W("true") -> ParseOk(Bool(TRUE), i + 1)
           [] tok = W("false") -> ParseOk(Bool(FALSE), i + 1)
           [] tok = C("{") ->
                IF i + 1 <= Len(txt) /\ txt[i + 1] = C("}")
                THEN ParseOk(Obj(<<>>), i + 2)
                ELSE ParseMembers(txt, i + 1, <<>>)
           [] tok = C("[") ->
                IF i + 1 <= Len(txt) /\ txt[i + 1] = C("]")
                THEN ParseOk(Arr(<<>>), i + 2)
                ELSE ParseElements(txt, i + 1, <<>>)
           [] OTHER -> ParseFail

\* "key" : value ( , "key" : value )* }
ParseMembers(txt, i, acc) ==
    IF i + 1 > Len(txt) \/ txt[i].k # "s" \/ txt[i + 1] # C(":") THEN ParseFail
    ELSE LET r == ParseValue(txt, i + 2) IN
         IF ~r.ok \/ r.i > Len(txt) THEN ParseFail
         ELSE LET m == PropSet(acc, txt[i].q, r.v) IN
              CASE txt[r.i] = C("}") -> ParseOk(Obj(m), r.i + 1)
                [] txt[r.i] = C(",") -> ParseMembers(txt, r.i + 1, m)
                [] OTHER -> ParseFail

\* value ( , value )* ]
ParseElements(txt, i, acc) ==
    LET r == ParseValue(txt, i) IN
    IF ~r.ok \/ r.i > Len(txt) THEN ParseFail
    ELSE LET m == Append(acc, P(<<>>, r.v)) IN
         CASE txt[r.i] = C("]") -> ParseOk(Arr(m), r.i + 1)
           [] txt[r.i] = C(",") -> ParseElements(txt, r.i + 1, m)
           [] OTHER -> ParseFail

\* JSON.parse(txt): ok is FALSE where it throws a SyntaxError
JSONParse(txt) ==
    LET r == ParseValue(txt, 1) IN
    IF r.ok /\ r.i = Len(txt) + 1 THEN r ELSE ParseFail

\* -------------------------------------------------------- JSON.stringify

RECURSIVE Stringify(_), StringifyMembers(_, _), StringifyElements(_, _)

\* the members of an object; a property whose value is undefined is left out
StringifyMembers(m, first) ==
    IF m = <<>> THEN <<>>
    ELSE IF Head(m).v.t = "undefined" THEN StringifyMembers(Tail(m), first)
    ELSE (IF first THEN <<>> ELSE <<C(",")>>)
         \o <<Q(Head(m).k), C(":")>> \o Stringify(Head(m).v)
         \o StringifyMembers(Tail(m), FALSE)

\* the elements of an array; an undefined element is written null
StringifyElements(m, first) ==
    IF m = <<>> THEN <<>>
    ELSE (IF first THEN <<>> ELSE <<C(",")>>)
         \o Stringify(Head(m).v)
         \o StringifyElements(Tail(m), FALSE)

Stringify(x) ==
    CASE x.t = "string" -> <<Q(x.s)>>
      [] x.t = "true" -> T("true")
      [] x.t = "false" -> T("false")
      [] x.t = "object" -> <<C("{")>> \o StringifyMembers(x.m, TRUE) \o <<C("}")>>
      [] x.t = "array" -> <<C("[")>> \o StringifyElements(x.m, TRUE) \o <<C("]")>>
      [] OTHER -> T("null")

\* ------------------------------------------------------------------ disk

\* config.outputDir (the default, './contracts')
OutputDir == <<W("."), C("/"), W("contracts")>>

RECURSIVE SplitPath(_, _, _)
\* the segments of a path text, split at every "/"
SplitPath(txt, cur, acc) ==
    IF txt = <<>> THEN Append(acc, cur)
    ELSE IF Head(txt) = C("/") THEN SplitPath(Tail(txt), <<>>, Append(acc, cur))
    ELSE SplitPath(Tail(txt), Append(cur, Head(txt)), acc)

RECURSIVE NormSegs(_, _)
\* path.normalize on segments: "" and "." are dropped, ".." takes back a segment
NormSegs(segs, acc) ==
    IF segs = <<>> THEN acc
    ELSE LET s == Head(segs) IN
         IF s = <<>> \/ s = T(".") THEN NormSegs(Tail(segs), acc)
         ELSE IF s = T("..") /\ acc # <<>> /\ acc[Len(acc)] # T("..")
              THEN NormSegs(Tail(segs), SubSeq(acc, 1, Len(acc) - 1))
              ELSE NormSegs(Tail(segs), Append(acc, s))

\* path.join(dir, file): a place on disk, as segments below the working directory
PathJoin(dir, file) == NormSegs(SplitPath(dir \o <<C("/")>> \o file, <<>>, <<>>), <<>>)

\* path.join(outputDir, 'results.json')
ResultsPath == PathJoin(OutputDir, T("results.json"))

IsPrefix(a, b) == Len(a) <= Len(b) /\ SubSeq(b, 1, Len(a)) = a

\* a write to place pl cannot succeed: pl is a directory (the output directory,
\* one above it, or the parent of a file), or a file stands where a directory
\* of pl is needed (mkdirSync or writeFileSync throws)
FsBlocked(d, pl) ==
    \/ IsPrefix(pl, PathJoin(OutputDir, <<>>))
    \/ \E f \in DOMAIN d : f # pl /\ (IsPrefix(pl, f) \/ IsPrefix(f, pl))

\* the disk d after fs.writeFileSync(pl, content)
WriteFile(d, pl, content) ==
    [f \in DOMAIN d \cup {pl} |-> IF f = pl THEN content ELSE d[f]]

\* ------------------------------------------------------- parseSourceCode

StartsWith(txt, pre) == Len(txt) >= Len(pre) /\ SubSeq(txt, 1, Len(pre)) = pre

\* txt.slice(1, -1): one character off each end. A last token longer than one
\* character is left cut short (kind "u"), which no JSON value ends with.
Slice1(txt) ==
    IF Len(txt) < 2 THEN <<>>
    ELSE LET last == txt[Len(txt)] IN
         SubSeq(txt, 2, Len(txt) - 1)
         \o (IF last.k = "c" THEN <<>> ELSE <<[last EXCEPT !.k = "u"]>>)

\* { [fileName]: { content: sourceCode } }
SingleFile(sourceCode, contractName) ==
    LET fileName == IF Truthy(contractName)
                    THEN ToText(contractName) \o T(".sol")
                    ELSE T("Contract.sol")
    IN Obj(<<P(fileName, Obj(<<P(T("content"), sourceCode)>>))>>)

\* parseSourceCode(sourceCode, contractName): the file map, or a throw
parseSourceCode(sourceCode, contractName) ==
    IF ~Truthy(sourceCode) THEN [throws |-> TRUE, v |-> Undef]
    ELSE IF StartsWith(sourceCode.s, <<C("{")>>)
    THEN LET parsed == IF StartsWith(sourceCode.s, <<C("{"), C("{")>>)
                       THEN Slice1(sourceCode.s)
                       ELSE sourceCode.s
             json == JSONParse(parsed)
             sources == Get(json.v, T("sources"))
         IN IF ~json.ok
            THEN [throws |-> FALSE, v |-> SingleFile(sourceCode, contractName)]
            ELSE IF Truthy(sources) /\ TypeofObject(sources)
            THEN [throws |-> FALSE, v |-> sources]
            ELSE [throws |-> FALSE, v |-> json.v]
    ELSE [throws |-> FALSE, v |-> SingleFile(sourceCode, contractName)]

\* Object.entries(x): the own properties in order; an array's are its indices
Entries(x) ==
    IF x.t = "array"
    THEN [j \in 1..Len(x.m) |-> P(T(ToString(j - 1)), x.m[j].v)]
    ELSE x.m

\* ---------------------------------------------------- writeContractFiles

\* fileData.content || fileData (fileData neither null nor undefined)
FileContent(fileData) ==
    IF Truthy(Get(fileData, T("content")))
    THEN Get(fileData, T("content"))
    ELSE fileData

RECURSIVE WriteLoopListingFirst(_, _, _, _, _)
\* WriteLoop, as if a file were listed before its write and a refused write
\* were skipped
WriteLoopListingFirst(entries, i, acc, failAt, coerce) ==
    IF i > Len(entries) THEN acc
    ELSE LET filePath == entries[i].k
             fileData == entries[i].v
             fullPath == PathJoin(OutputDir, filePath)
             content == FileContent(fileData)
             listed == [acc EXCEPT !.fileList = Append(acc.fileList, filePath)]
         IN IF GetThrows(fileData) THEN [acc EXCEPT !.err = "TypeError: read"]
            ELSE IF FsBlocked(acc.disk, fullPath) \/ failAt = i
            THEN WriteLoopListingFirst(entries, i + 1, listed, failAt, coerce)
            ELSE IF content.t # "string" /\ ~coerce THEN [acc EXCEPT !.err = "TypeError: data"]
            ELSE WriteLoopListingFirst(entries, i + 1,
                           [listed EXCEPT !.disk = WriteFile(acc.disk, fullPath, ToText(content))],
                           failAt, coerce)

RECURSIVE WriteLoop(_, _, _, _, _)
\* the loop of lines 179-193 over the entries from the i-th on: each file is
\* written and then listed; the first throw ends it (err says which). failAt is
\* the entry whose write the file system refuses (0: none); coerce is whether
\* this Node turns a content that is no string into text (releases before 14)
\* or throws a TypeError.
WriteLoop(entries, i, acc, failAt, coerce) ==
    IF i > Len(entries) THEN acc
    ELSE LET filePath == entries[i].k
             fileData == entries[i].v
             fullPath == PathJoin(OutputDir, filePath)
             content == FileContent(fileData)
         IN IF GetThrows(fileData) THEN [acc EXCEPT !.err = "TypeError: read"]
            ELSE IF FsBlocked(acc.disk, fullPath) \/ failAt = i
            THEN [acc EXCEPT !.err = "file write"]
            ELSE IF content.t # "string" /\ ~coerce THEN [acc EXCEPT !.err = "TypeError: data"]
            ELSE WriteLoop(entries, i + 1,
                           [acc EXCEPT !.disk = WriteFile(acc.disk, fullPath, ToText(content)),
                                       !.fileList = Append(acc.fileList, filePath)],
                           failAt, coerce)

\* the metadata object of lines 196-206
Metadata(contractData) ==
    Obj(<<P(T("contractName"), Get(contractData, T("ContractName"))),
          P(T("compilerVersion"), Get(contractData, T("CompilerVersion"))),
          P(T("optimizationUsed"), Bool(Get(contractData, T("OptimizationUsed")) = Str(T("1")))),
          P(T("runs"), Get(contractData, T("Runs"))),
          P(T("evmVersion"), Get(contractData, T("EVMVersion"))),
          P(T("licenseType"), Get(contractData, T("LicenseType"))),
          P(T("proxy"), Bool(Get(contractData, T("Proxy")) = Str(T("1")))),
          P(T("implementation"), Get(contractData, T("Implementation"))),
          P(T("constructorArguments"), Get(contractData, T("ConstructorArguments")))>>)

NotVerified == Str(T("Contract source code not verified"))

\* the abi of lines 209-216: parsed, kept raw when it does not parse, else null
ParseAbi(contractData) ==
    LET abi == Get(contractData, T("ABI")) IN
    IF Truthy(abi) /\ abi # NotVerified
    THEN (IF JSONParse(abi.s).ok THEN JSONParse(abi.s).v ELSE abi)
    ELSE Null

\* contractName || contractData.ContractName || 'UnknownContract'
ActualContractName(contractData, contractName) ==
    IF Truthy(contractName) THEN contractName
    ELSE IF Truthy(Get(contractData, T("ContractName")))
    THEN Get(contractData, T("ContractName"))
    ELSE Str(T("UnknownContract"))

\* writeContractFiles(contractData, outputDir, contractName) on disk d: err
\* names what it throws ("": nothing); disk is the disk it leaves either way
writeContractFiles(d, contractData, contractName, failAt, coerce) ==
    LET sources == parseSourceCode(Get(contractData, T("SourceCode")),
                                   Get(contractData, T("ContractName")))
        start == [err |-> "", disk |-> d, fileList |-> <<>>]
        done == IF sources.throws THEN [start EXCEPT !.err = "Empty source code"]
                ELSE WriteLoop(Entries(sources.v), 1, start, failAt, coerce)
    IN [err |-> done.err,
        disk |-> done.disk,
        fileList |-> done.fileList,
        fileCount |-> Len(done.fileList),
        metadata |-> Metadata(contractData),
        abi |-> ParseAbi(contractData),
        directoryName |-> ActualContractName(contractData, contractName)]

\* ----------------------------------------------------------- saveResults

\* LoadManifest, as if the parse error of a corrupt results.json were not
\* caught: nothing is loaded
LoadManifestUncaught(d) ==
    IF ResultsPath \notin DOMAIN d
    THEN [from |-> "absent", all |-> Obj(<<>>)]
    ELSE IF JSONParse(d[ResultsPath]).ok
    THEN [from |-> "parsed", all |-> JSONParse(d[ResultsPath]).v]
    ELSE [from |-> "corrupt", all |-> Undef]

\* what saveResults starts from: {} when there is no results.json, or when it
\* cannot be read or parsed; else the parsed document
LoadManifest(d) ==
    IF ResultsPath \notin DOMAIN d
    THEN [from |-> IF \E f \in DOMAIN d : IsPrefix(ResultsPath, f)
                   THEN "unreadable" ELSE "absent",
          all |-> Obj(<<>>)]
    ELSE IF JSONParse(d[ResultsPath]).ok
    THEN [from |-> "parsed", all |-> JSONParse(d[ResultsPath]).v]
    ELSE [from |-> "corrupt", all |-> Obj(<<>>)]

\* new Date().toISOString() at time t
ISOString(t) == Str(T(ToString(t)))

\* the entry of lines 245-253 for contractResults = {address, ...result}
ManifestEntry(address, result, t) ==
    Obj(<<P(T("address"), Str(address)),
          P(T("contractName"), Get(result.metadata, T("contractName"))),
          P(T("directory"), result.directoryName),
          P(T("files"), Arr([j \in 1..Len(result.fileList) |-> P(<<>>, Str(result.fileList[j]))])),
          P(T("metadata"), result.metadata),
          P(T("abi"), result.abi),
          P(T("fetchedAt"), ISOString(t))>>)

\* Upsert, as if every call added a property, also for an address already there
UpsertAppending(allResults, address, entry) ==
    CASE allResults.t = "object" ->
            [throws |-> FALSE, v |-> Obj(Append(allResults.m, P(address, entry)))]
      [] allResults.t \in {"null", "undefined"} -> [throws |-> TRUE, v |-> allResults]
      [] OTHER -> [throws |-> FALSE, v |-> allResults]

\* allResults[address] = entry: a property of an object is set (or replaced in
\* place); null throws a TypeError; an array or a primitive takes the
\* assignment and keeps nothing JSON.stringify would write
Upsert(allResults, address, entry) ==
    CASE allResults.t = "object" ->
            [throws |-> FALSE, v |-> Obj(PropSet(allResults.m, address, entry))]
      [] allResults.t \in {"null", "undefined"} -> [throws |-> TRUE, v |-> allResults]
      [] OTHER -> [throws |-> FALSE, v |-> allResults]

\* ------------------------------------------------------------ the explorer

AddrA == T("0xA")
AddrB == T("0xB")
AddrC == T("0xC")
AddrD == T("0xD")
AddrE == T("0xE")
AddrF == T("0xF")

\* one result[0] of the explorer API; a field given as Undef is absent
ApiRecord(name, opt, proxy, impl, source, abi) ==
    Obj(<<P(T("SourceCode"), source),
          P(T("ABI"), abi),
          P(T("ContractName"), name),
          P(T("CompilerVersion"), Str(T("v0.8.20+commit.a1b79de6"))),
          P(T("OptimizationUsed"), opt),
          P(T("Runs"), Str(T("200"))),
          P(T("ConstructorArguments"), Str(<<>>)),
          P(T("EVMVersion"), Str(T("Default"))),
          P(T("LicenseType"), Str(T("MIT"))),
          P(T("Proxy"), proxy),
          P(T("Implementation"), impl)>>)

File(content) == Obj(<<P(T("content"), Str(content))>>)

\* plain single-file text
SrcPlain == <<W("contract Foo "), C("{"), C("}")>>
\* standard JSON input with two files, one in a sub-directory
SrcMulti ==
    Stringify(Obj(<<P(T("language"), Str(T("Solidity"))),
                    P(T("sources"), Obj(<<P(T("a.sol"), File(T("x"))),
                                          P(<<W("lib"), C("/"), W("b.sol")>>, File(T("y")))>>))>>))
\* the same, wrapped in a second pair of braces
SrcDouble == <<C("{")>> \o SrcMulti \o <<C("}")>>
\* a flat map of file name to text
SrcFlat == Stringify(Obj(<<P(T("a.sol"), Str(T("x")))>>))
SrcEmptyObject == <<C("{"), C("}")>>
SrcEmptyFile == Stringify(Obj(<<P(T("a.sol"), File(<<>>))>>))
SrcMalformed == <<C("{"), W("not-valid-json")>>
\* a file named like the manifest, holding an empty JSON object
SrcManifestName == Stringify(Obj(<<P(T("results.json"), Str(<<C("{"), C("}")>>))>>))

Yes == Str(T("1"))
No == Str(T("0"))

\* the contracts the explorer knows: 0xA is a proxy of 0xB, whose record names
\* 0xA as its own implementation in turn; 0xC is a plain contract; 0xD has a
\* file named results.json; 0xE has no source; 0xF is another plain contract
Explorer(address) ==
    CASE address = AddrA ->
            ApiRecord(Str(T("P")), Yes, Yes, Str(AddrB), Str(SrcDouble), NotVerified)
      [] address = AddrB ->
            ApiRecord(Str(T("Q")), No, Yes, Str(AddrA), Str(SrcFlat), Str(T("not json")))
      [] address = AddrC ->
            ApiRecord(Str(T("Foo")), Yes, No, Str(<<>>), Str(SrcPlain), Str(<<C("["), C("]")>>))
      [] address = AddrD ->
            ApiRecord(Str(T("Foo")), No, No, Str(<<>>), Str(SrcManifestName), NotVerified)
      [] address = AddrE ->
            ApiRecord(Str(T("Foo")), No, No, Undef, Str(<<>>), NotVerified)
      [] OTHER ->
            ApiRecord(Str(T("Bar")), No, No, Str(<<>>), Str(<<W("contract Bar "), C("{"), C("}")>>), NotVerified)

\* the explorer's answer for a record: HTTP 200, {status: "1", message, result: [record]}
ApiOk(record) ==
    [http |-> 200,
     body |-> Stringify(Obj(<<P(T("status"), Yes),
                              P(T("message"), Str(T("OK"))),
                              P(T("result"), Arr(<<P(<<>>, record)>>))>>))]

\* the answers that make fetchContract throw: no connection (0), a status other
\* than 200, a body that is no JSON, status "0", no result
ApiErrors ==
    { [http |-> 0, body |-> <<>>],
      [http |-> 500, body |-> T("Internal Server Error")],
      [http |-> 200, body |-> T("<html>")],
      [http |-> 200,
       body |-> Stringify(Obj(<<P(T("status"), No), P(T("message"), Str(T("NOTOK"))),
                                P(T("result"), Str(T("Invalid API Key")))>>))],
      [http |-> 200,
       body |-> Stringify(Obj(<<P(T("status"), Yes), P(T("message"), Str(T("OK"))),
                                P(T("result"), Arr(<<>>))>>))] }

\* what a request for address may be answered with
Responses(address) == ApiErrors \cup {ApiOk(Explorer(address))}

\* fetchContract on the response resp: data.result[0], or a throw
fetchContract(resp) ==
    LET data == JSONParse(resp.body)
        result == Get(data.v, T("result"))
    IN IF resp.http # 200 \/ ~data.ok \/ GetThrows(data.v) THEN [throws |-> TRUE, v |-> Undef]
       ELSE IF Get(data.v, T("status")) # Yes THEN [throws |-> TRUE, v |-> Undef]
       ELSE IF ~Truthy(result) \/ (result.t = "array" /\ Len(result.m) = 0)
       THEN [throws |-> TRUE, v |-> Undef]
       ELSE [throws |-> FALSE,
             v |-> IF result.t = "array" THEN result.m[1].v ELSE Undef]

\* ------------------------------------------------------------------ main

\* runs started, over all processes
MaxRuns == 2
\* the latest time a manifest entry is stamped with
MaxClock == 1

\* the processes that may run the tool on the one output directory
Procs == {"p1", "p2"}

VARIABLES
    disk,    \* the files below the working directory: place |-> text
    now,     \* the clock: the time of the latest new Date()
    starts,  \* how many runs were started
    run,     \* per process: where main is and its local variables
    saved,   \* the last saveResults call that wrote: its argument and the document
    overlapped   \* a run was started while a run of another process had not ended

vars == <<disk, now, starts, run, saved, overlapped>>

\* a line of console output
E(kind, txt) == [e |-> kind, a |-> txt]

NoResult ==
    [fileList |-> <<>>, fileCount |-> 0, metadata |-> Undef, abi |-> Undef,
     directoryName |-> Undef]

\* a process that has not run main yet
Idle ==
    [pc |-> "idle", address |-> <<>>, asked |-> <<>>, contractData |-> Undef, stage |-> "init",
     implAddress |-> Undef, contractName |-> Undef, saveAddress |-> <<>>,
     result |-> NoResult, allResults |-> Undef, from |-> "none",
     stdout |-> <<>>, exit |-> -1]

NoSave == [address |-> <<>>, result |-> NoResult, document |-> <<>>]

Init ==
    /\ disk = [f \in {} |-> <<>>]
    /\ now = 0
    /\ starts = 0
    /\ run = [p \in Procs |-> Idle]
    /\ saved = NoSave
    /\ overlapped = FALSE

\* process.exit(1) of lines 347-350 (and 268)
ExitFailure == 1

\* Catch, as if the process ended with status 0 after an error
CatchExitZero(r, message) ==
    [r EXCEPT !.pc = "failed",
              !.exit = 0,
              !.stdout = Append(r.stdout, E("error", T(message)))]

\* the catch of lines 347-350: the error is printed and the process exits
Catch(r, message) ==
    [r EXCEPT !.pc = "failed",
              !.exit = ExitFailure,
              !.stdout = Append(r.stdout, E("error", T(message)))]

\* line 284: contractData.Proxy === '1' && contractData.Implementation
IsProxy(contractData) ==
    /\ Get(contractData, T("Proxy")) = Str(T("1"))
    /\ Truthy(Get(contractData, T("Implementation")))

\* main with config.address = a, to the first await: the address is checked and
\* the first request is sent
Start(p, a) ==
    /\ run[p].pc \in {"idle", "done", "failed", "killed"}
    /\ starts < MaxRuns
    /\ starts' = starts + 1
    /\ run' = [run EXCEPT ![p] =
                 IF a = <<>>
                 THEN [Idle EXCEPT !.pc = "failed", !.exit = ExitFailure,
                                   !.stdout = <<E("error", T("Contract address is required"))>>]
                 ELSE [Idle EXCEPT !.pc = "fetch", !.address = a, !.asked = a,
                                   !.stdout = <<E("fetch", a)>>]]
    /\ overlapped' = (overlapped
                       \/ \E q \in Procs \ {p} :
                             run[q].pc \notin {"idle", "done", "failed", "killed"})
    /\ UNCHANGED <<disk, now, saved>>

\* AfterFirstFetch, as if the implementation were requested before the proxy
\* is written and saved
AfterFirstFetchImplementationFirst(r, contractData) ==
    IF IsProxy(contractData)
    THEN [r EXCEPT !.pc = "fetch", !.stage = "proxy",
                   !.contractData = contractData,
                   !.implAddress = Get(contractData, T("Implementation")),
                   !.asked = ToText(Get(contractData, T("Implementation"))),
                   !.saveAddress = r.address,
                   !.stdout = r.stdout \o <<E("contract", ToText(Get(contractData, T("ContractName")))),
                                            E("proxy", ToText(Get(contractData, T("Implementation")))),
                                            E("fetch", ToText(Get(contractData, T("Implementation"))))>>]
    ELSE [r EXCEPT !.pc = "write", !.stage = "single",
                   !.contractData = contractData,
                   !.contractName = Get(contractData, T("ContractName")),
                   !.saveAddress = r.address,
                   !.stdout = Append(r.stdout, E("contract", ToText(Get(contractData, T("ContractName")))))]

\* what main does with the first record (lines 278-289, 325): which address,
\* which directory label, and whether an implementation is to follow
AfterFirstFetch(r, contractData) ==
    IF IsProxy(contractData)
    THEN [r EXCEPT !.pc = "write", !.stage = "proxy",
                   !.contractData = contractData,
                   !.implAddress = Get(contractData, T("Implementation")),
                   !.contractName = Str(ToText(Get(contractData, T("ContractName"))) \o T("_Proxy")),
                   !.saveAddress = r.address,
                   !.stdout = r.stdout \o <<E("contract", ToText(Get(contractData, T("ContractName")))),
                                            E("proxy", ToText(Get(contractData, T("Implementation"))))>>]
    ELSE [r EXCEPT !.pc = "write", !.stage = "single",
                   !.contractData = contractData,
                   !.contractName = Get(contractData, T("ContractName")),
                   !.saveAddress = r.address,
                   !.stdout = Append(r.stdout, E("contract", ToText(Get(contractData, T("ContractName")))))]

\* what main does with the implementation's record (lines 301-307)
AfterSecondFetch(r, contractData) ==
    [r EXCEPT !.pc = "write", !.stage = "impl",
              !.contractData = contractData,
              !.contractName = Get(contractData, T("ContractName")),
              !.saveAddress = ToText(r.implAddress),
              !.stdout = Append(r.stdout, E("contract", ToText(Get(contractData, T("ContractName")))))]

\* the awaited fetchContract settles with the explorer's response resp
FetchReturn(p, resp) ==
    LET r == run[p]
        got == fetchContract(resp)
    IN /\ r.pc = "fetch"
       /\ run' = [run EXCEPT ![p] =
                    IF got.throws THEN Catch(r, "fetch")
                    ELSE IF GetThrows(got.v) THEN Catch(r, "TypeError: read")
                    ELSE IF r.stage = "init" THEN AfterFirstFetch(r, got.v)
                    ELSE AfterSecondFetch(r, got.v)]
       /\ UNCHANGED <<disk, now, starts, saved, overlapped>>

\* the entries parseSourceCode gives for a record (none where it throws)
SourceEntries(contractData) ==
    LET sources == parseSourceCode(Get(contractData, T("SourceCode")),
                                   Get(contractData, T("ContractName")))
    IN IF sources.throws THEN <<>> ELSE Entries(sources.v)

\* writeContractFiles(contractData, config.outputDir, contractName)
WriteFiles(p, failAt, coerce) ==
    LET r == run[p]
        w == writeContractFiles(disk, r.contractData, r.contractName, failAt, coerce)
        out == r.stdout \o [j \in 1..Len(w.fileList) |-> E("file", w.fileList[j])]
    IN /\ r.pc = "write"
       /\ disk' = w.disk
       /\ run' = [run EXCEPT ![p] =
                    IF w.err # "" THEN Catch([r EXCEPT !.stdout = out], w.err)
                    ELSE [r EXCEPT !.pc = "load",
                                   !.stdout = out,
                                   !.result = [fileList |-> w.fileList,
                                               fileCount |-> w.fileCount,
                                               metadata |-> w.metadata,
                                               abi |-> w.abi,
                                               directoryName |-> w.directoryName]]]
       /\ UNCHANGED <<now, starts, saved, overlapped>>

\* saveResults, lines 230-253: results.json is read and the entry set, at time t
LoadResults(p, t) ==
    LET r == run[p]
        loaded == LoadManifest(disk)
        up == Upsert(loaded.all, r.saveAddress, ManifestEntry(r.saveAddress, r.result, t))
    IN /\ r.pc = "load"
       /\ now' = t
       /\ run' = [run EXCEPT ![p] =
                    IF up.throws THEN Catch([r EXCEPT !.from = loaded.from], "TypeError: set")
                    ELSE [r EXCEPT !.pc = "persist", !.from = loaded.from,
                                   !.allResults = up.v]]
       /\ UNCHANGED <<disk, starts, saved, overlapped>>

\* AfterSave, as if main followed the Proxy flag of every record it saved
AfterSaveFollowingEveryProxy(r) ==
    IF IsProxy(r.contractData)
    THEN [r EXCEPT !.pc = "fetch",
                   !.asked = ToText(Get(r.contractData, T("Implementation"))),
                   !.implAddress = Get(r.contractData, T("Implementation")),
                   !.stdout = r.stdout \o <<E("updated", T("results.json")),
                                            E("fetch", ToText(Get(r.contractData, T("Implementation"))))>>]
    ELSE [r EXCEPT !.pc = "done", !.exit = 0,
                   !.stdout = r.stdout \o <<E("updated", T("results.json")),
                                            E("success", T(ToString(r.result.fileCount)))>>]

\* after a saveResults: the implementation is fetched once, after the proxy
\* was saved (lines 299-301); otherwise main is done
AfterSave(r) ==
    IF r.stage = "proxy"
    THEN [r EXCEPT !.pc = "fetch", !.asked = ToText(r.implAddress),
                   !.stdout = r.stdout \o <<E("updated", T("results.json")),
                                            E("fetch", ToText(r.implAddress))>>]
    ELSE [r EXCEPT !.pc = "done", !.exit = 0,
                   !.stdout = r.stdout \o <<E("updated", T("results.json")),
                                            E("success", T(ToString(r.result.fileCount)))>>]

\* saveResults, line 256: results.json is written, unless the file system
\* refuses (refused)
Persist(p, refused) ==
    LET r == run[p]
        document == Stringify(r.allResults)
    IN /\ r.pc = "persist"
       /\ IF refused \/ FsBlocked(disk, ResultsPath)
          THEN /\ run' = [run EXCEPT ![p] = Catch(r, "manifest write")]
               /\ UNCHANGED <<disk, saved>>
          ELSE /\ disk' = WriteFile(disk, ResultsPath, document)
               /\ run' = [run EXCEPT ![p] = AfterSave(r)]
               /\ saved' = [address |-> r.saveAddress, result |-> r.result,
                             document |-> document]
       /\ UNCHANGED <<now, starts, overlapped>>

\* the process dies inside the write of line 256: only the first cut tokens of
\* the document reach results.json
Kill(p, cut) ==
    LET r == run[p]
        document == Stringify(r.allResults)
    IN /\ r.pc = "persist"
       /\ ~FsBlocked(disk, ResultsPath)
       /\ cut < Len(document)
       /\ disk' = WriteFile(disk, ResultsPath, SubSeq(document, 1, cut))
       /\ run' = [run EXCEPT ![p] = [r EXCEPT !.pc = "killed"]]
       /\ UNCHANGED <<now, starts, saved, overlapped>>

Addresses == {AddrA, AddrB, AddrC, AddrD, AddrE, AddrF}

\* one step of process p, started on an address from addrs
Step(p, addrs) ==
    \/ \E a \in addrs : Start(p, a)
    \/ \E resp \in Responses(run[p].asked) : FetchReturn(p, resp)
    \/ \E failAt \in 0..Len(SourceEntries(run[p].contractData)), coerce \in BOOLEAN :
          WriteFiles(p, failAt, coerce)
    \/ \E t \in now..MaxClock : LoadResults(p, t)
    \/ \E refused \in BOOLEAN : Persist(p, refused)
    \/ \E cut \in {1} : Kill(p, cut)

\* one process: run after run on the same output directory
Next == Step("p1", Addresses)

Spec == Init /\ [][Next]_vars

\* two processes on the same output directory, their steps interleaved
ConcNext == \E p \in Procs : Step(p, {AddrC, AddrD, AddrF})

ConcSpec == Init /\ [][ConcNext]_vars

\* --------------------------------------------- parseSourceCode on its own

\* the longest source text of the exhaustive inputs, in tokens
MaxSourceLen == 3

SrcNullFile == <<C("{"), Q(T("a.sol")), C(":"), W("null"), C("}")>>
SrcNoSources == Stringify(Obj(<<P(T("sources"), Obj(<<>>))>>))
SrcFlatEmpty == Stringify(Obj(<<P(T("a.sol"), Str(<<>>))>>))
SrcHalfWrapped == <<C("{")>> \o SrcFlat

\* every text of up to MaxSourceLen of these tokens, and the shapes above
SourceTexts ==
    UNION {[1..n -> {C("{"), C("}"), C(":"), Q(T("a.sol")), Q(<<>>), W("x")}] :
              n \in 0..MaxSourceLen}
    \cup {SrcPlain, SrcMulti, SrcDouble, SrcFlat, SrcEmptyObject, SrcEmptyFile,
          SrcMalformed, SrcManifestName, SrcNullFile, SrcNoSources, SrcFlatEmpty,
          SrcHalfWrapped}

\* main has fetched, for 0xC, a record whose SourceCode is any of SourceTexts
\* (or is missing), with or without a ContractName
NormInit ==
    /\ disk = [f \in {} |-> <<>>]
    /\ now = 0
    /\ starts = 1
    /\ saved = NoSave
    /\ overlapped = FALSE
    /\ \E source \in {Str(txt) : txt \in SourceTexts} \cup {Undef},
          name \in {Undef, Str(T("Foo"))} :
          run = [p \in Procs |->
                   IF p = "p1"
                   THEN AfterFirstFetch([Idle EXCEPT !.pc = "fetch", !.address = AddrC,
                                                     !.asked = AddrC,
                                                     !.stdout = <<E("fetch", AddrC)>>],
                                        ApiRecord(name, No, No, Str(<<>>), source, NotVerified))
                   ELSE Idle]

\* the files are written and the manifest saved
NormNext ==
    \/ \E failAt \in 0..Len(SourceEntries(run["p1"].contractData)), coerce \in BOOLEAN :
          WriteFiles("p1", failAt, coerce)
    \/ \E t \in now..MaxClock : LoadResults("p1", t)
    \/ \E refused \in BOOLEAN : Persist("p1", refused)

NormSpec == NormInit /\ [][NormNext]_vars

\* ------------------------------------------------------------ properties

\* the lines of kind in a console output, by position
Events(out, kind) == {j \in 1..Len(out) : out[j].e = kind}
Max(S) == CHOOSE m \in S : \A n \in S : n <= m
Min(S) == CHOOSE m \in S : \A n \in S : m <= n

\* results.json as it parses now
DocumentOf(d) ==
    IF ResultsPath \in DOMAIN d THEN JSONParse(d[ResultsPath]) ELSE ParseFail
Document == DocumentOf(disk)
\* the addresses with an entry in results.json
Keys(val) == {val.m[j].k : j \in 1..Len(val.m)}
\* the paths of a file list, as the array results.json holds
FilesArray(fileList) == Arr([j \in 1..Len(fileList) |-> P(<<>>, Str(fileList[j]))])
\* every listed file has its place on disk
FilesOnDisk(fileList) ==
    \A j \in 1..Len(fileList) : PathJoin(OutputDir, fileList[j]) \in DOMAIN disk
\* the text entry j of a file map is to hold, and whether a later entry has
\* the same place on disk
EntryText(entries, j) == ToText(FileContent(entries[j].v))
Overwritten(entries, j) ==
    \E k \in (j + 1)..Len(entries) :
        PathJoin(OutputDir, entries[k].k) = PathJoin(OutputDir, entries[j].k)
\* the entries' texts are on disk (a file named as the manifest is overwritten
\* by it)
TextsOnDisk(entries) ==
    \A j \in 1..Len(entries) :
        LET place == PathJoin(OutputDir, entries[j].k) IN
        /\ place \in DOMAIN disk
        /\ (~Overwritten(entries, j) /\ place # ResultsPath)
              => disk[place] = EntryText(entries, j)
\* the keys of a file map, in order
PathsOf(entries) == [j \in 1..Len(entries) |-> entries[j].k]

\* results.json holds, under address, an entry with this label and file list
EntrySaved(address, label, fileList) ==
    /\ Document.ok
    /\ HasProp(Document.v, address)
    /\ Get(Get(Document.v, address), T("address")) = Str(address)
    /\ Get(Get(Document.v, address), T("directory")) = label
    /\ Get(Get(Document.v, address), T("files")) = FilesArray(fileList)

\* the second request of a proxy run is out and not yet answered
ImplementationAsked(r) == r.pc = "fetch" /\ r.stage = "proxy"

\* C1: in a run whose first record is a proxy with an implementation, the
\* proxy's files and its manifest entry (under the requested address, labelled
\* ContractName_Proxy) are on disk when the implementation is requested, every
\* file and manifest write for the implementation comes after that request,
\* and the implementation's entry is under the implementation address,
\* labelled with its own ContractName.
C1_ProxyBeforeImplementation ==
    \A p \in Procs :
        LET r == run[p]
            out == r.stdout
            writes == Events(out, "file") \cup Events(out, "updated")
        IN r.stage \in {"proxy", "impl"} =>
             /\ Cardinality(Events(out, "fetch")) = 2 =>
                  LET f2 == Max(Events(out, "fetch")) IN
                  /\ Cardinality({u \in Events(out, "updated") : u < f2}) = 1
                  /\ \A j \in Events(out, "file") :
                        j < f2 => j < Min(Events(out, "updated"))
                  /\ \A j \in writes :
                        j > f2 => (Cardinality(Events(out, "contract")) = 2
                                   /\ j > Max(Events(out, "contract")))
             /\ ImplementationAsked(r) =>
                  /\ IsProxy(r.contractData)
                  /\ r.result.fileList = PathsOf(SourceEntries(r.contractData))
                  /\ TextsOnDisk(SourceEntries(r.contractData))
                  /\ EntrySaved(r.address,
                                Str(ToText(Get(r.contractData, T("ContractName"))) \o T("_Proxy")),
                                r.result.fileList)
             /\ r.pc = "done" =>
                  /\ r.stage = "impl"
                  /\ EntrySaved(ToText(r.implAddress),
                                Get(r.contractData, T("ContractName")),
                                r.result.fileList)

\* a proxy run went through: both records are saved
C1_Witness ==
    \E p \in Procs :
        /\ run[p].pc = "done" /\ run[p].stage = "impl"
        /\ Keys(Document.v) = {AddrA, AddrB}

\* the implementation's request failed: main stopped in the catch, after the
\* second request, with the proxy's record still in hand
SecondFetchFailed(r) ==
    /\ r.pc = "failed" /\ r.stage = "proxy"
    /\ Cardinality(Events(r.stdout, "fetch")) = 2

\* C2: when the implementation's fetch fails the run exits with status 1, the
\* proxy's files and results.json are on disk exactly as the proxy's save left
\* them: the proxy's entry is there, and results.json is still the document
\* that save wrote, so nothing was taken back and nothing was added for the
\* implementation.
C2_ProxyStaysAfterFailedImplementation ==
    \A p \in Procs :
        LET r == run[p] IN
        SecondFetchFailed(r) =>
            /\ r.exit # 0 /\ r.exit = ExitFailure
            /\ TextsOnDisk(SourceEntries(r.contractData))
            /\ EntrySaved(r.address,
                          Str(ToText(Get(r.contractData, T("ContractName"))) \o T("_Proxy")),
                          r.result.fileList)
            /\ disk[ResultsPath] = Stringify(r.allResults)
            /\ r.allResults.t = "object"
            /\ Get(r.allResults, r.address).t = "object"

\* the fetch of 0xB failed after the proxy 0xA was saved
C2_Witness ==
    \E p \in Procs :
        /\ SecondFetchFailed(run[p])
        /\ run[p].address = AddrA
        /\ Keys(Document.v) = {AddrA}

\* how many requests a run sent, how many were answered with a record, and
\* how many records it saved
Fetched(r) == Cardinality(Events(r.stdout, "fetch"))
Answered(r) == Cardinality(Events(r.stdout, "contract"))
Persisted(r) == Cardinality(Events(r.stdout, "updated"))

\* C3, as first stated: a run whose first record is no proxy (or names no
\* implementation) fetches and persists exactly one record; a run whose first
\* record is a proxy with an implementation, and whose two fetches succeed,
\* fetches and persists exactly two.
C3_CountsFromFirstRecordAlone ==
    \A p \in Procs :
        LET r == run[p] IN
        (r.pc \in {"done", "failed"} /\ Answered(r) >= 1) =>
            /\ r.stage = "single" => (Fetched(r) = 1 /\ Persisted(r) = 1)
            /\ (r.stage \in {"proxy", "impl"} /\ Answered(r) = 2)
                  => (Fetched(r) = 2 /\ Persisted(r) = 2)

\* C3, amended: the first record alone decides how many records are fetched
\* (one, or two for a proxy with an implementation), a run that ends without
\* error has persisted as many, and a run that ends in an error has persisted
\* no more than were answered. There is never a third request, whatever the
\* implementation's record says, and the second is sent only after the first
\* was answered.
C3_AtMostTwoFetches ==
    \A p \in Procs :
        LET r == run[p] IN
        /\ Fetched(r) <= 2
        /\ Persisted(r) <= Answered(r) /\ Answered(r) <= Fetched(r)
        /\ r.pc = "fetch" => Answered(r) = Fetched(r) - 1
        /\ r.stage = "single" => (~IsProxy(r.contractData) /\ Fetched(r) = 1)
        /\ r.stage = "proxy" => (IsProxy(r.contractData) /\ Answered(r) = 1)
        /\ r.stage = "impl" => (Fetched(r) = 2 /\ Answered(r) = 2
                                /\ Events(r.stdout, "proxy") # {})
        /\ Fetched(r) = 2 =>
              /\ Min(Events(r.stdout, "contract")) < Max(Events(r.stdout, "fetch"))
              /\ Events(r.stdout, "proxy") # {}
        /\ r.pc = "done" =>
              \/ r.stage = "single" /\ Fetched(r) = 1 /\ Persisted(r) = 1
              \/ r.stage = "impl" /\ Fetched(r) = 2 /\ Persisted(r) = 2

\* a proxy run ended well although its implementation's record is a proxy
\* that names the requested address
C3_Witness ==
    \E p \in Procs :
        /\ run[p].pc = "done" /\ run[p].stage = "impl"
        /\ IsProxy(run[p].contractData)
        /\ Get(run[p].contractData, T("Implementation")) = Str(run[p].address)

\* an entry without its time stamp
StripTime(entry) == Obj(SelectSeq(entry.m, LAMBDA m : m.k # T("fetchedAt")))
\* a value as it comes back from results.json
Reloaded(val) == JSONParse(Stringify(val)).v
\* how many properties of val are keyed key
Occurrences(val, key) == Cardinality({j \in 1..Len(val.m) : val.m[j].k = key})

\* saveResults is called with the argument of the last call that wrote
SameAsLastSave(r) == saved.address = r.saveAddress /\ saved.result = r.result

\* C4: after the upsert the manifest has exactly one entry for the address,
\* built from this call's argument alone and stamped with the current time;
\* when the call repeats the last one (same address, same record), the entry
\* it is about to write equals the one written before in every field but
\* fetchedAt.
C4_UpsertReplacesWholesale ==
    \A p \in Procs :
        LET r == run[p] IN
        (r.pc = "persist" /\ r.allResults.t = "object") =>
            /\ Occurrences(r.allResults, r.saveAddress) = 1
            /\ Get(r.allResults, r.saveAddress) = ManifestEntry(r.saveAddress, r.result, now)
            /\ SameAsLastSave(r) =>
                  /\ Occurrences(Reloaded(r.allResults), r.saveAddress) = 1
                  /\ StripTime(Get(Reloaded(r.allResults), r.saveAddress))
                       = StripTime(Get(JSONParse(saved.document).v, r.saveAddress))

\* the same save twice in a row, at two different times, onto the document
\* the first one wrote
C4_Witness ==
    \E p \in Procs :
        /\ run[p].pc = "persist" /\ SameAsLastSave(run[p])
        /\ disk[ResultsPath] = saved.document
        /\ Get(Get(JSONParse(saved.document).v, run[p].saveAddress), T("fetchedAt"))
             # ISOString(now)

\* the last line of a console output
LastLine(out) == IF out = <<>> THEN E("", <<>>) ELSE out[Len(out)]

\* C5: a results.json that is there but does not parse is loaded as {}: the
\* load throws nothing, the manifest in memory then holds only the new entry,
\* and so does results.json once it is written.
C5_CorruptManifestIsReset ==
    \A p \in Procs :
        LET r == run[p] IN
        r.from = "corrupt" =>
            /\ LastLine(r.stdout) # E("error", T("TypeError: set"))
            /\ r.pc = "persist" =>
                  r.allResults = Obj(<<P(r.saveAddress,
                                         ManifestEntry(r.saveAddress, r.result, now))>>)
            /\ (r.pc = "done" \/ ImplementationAsked(r)) =>
                  /\ Document.ok
                  /\ Document.v = Reloaded(Obj(<<P(r.saveAddress,
                                                   ManifestEntry(r.saveAddress, r.result, now))>>))

\* a run found results.json cut short by a killed run, and ended well
C5_Witness ==
    \E p \in Procs :
        /\ run[p].from = "corrupt" /\ run[p].pc = "done"
        /\ Keys(Document.v) = {run[p].saveAddress}

\* C6: as long as results.json parses, a step never takes an address out of
\* it, and changes no entry but the one of the address being saved.
C6_RegistryKeepsEveryAddress ==
    [][LET before == DocumentOf(disk)
           after == DocumentOf(disk')
       IN (before.ok /\ after.ok) =>
             /\ Keys(before.v) \subseteq Keys(after.v)
             /\ \A a \in Keys(before.v) :
                   (\A p \in Procs : run[p].saveAddress # a)
                      => Get(after.v, a) = Get(before.v, a)]_vars

\* the throws of writeContractFiles
WriteErrors ==
    {E("error", T("Empty source code")), E("error", T("TypeError: read")),
     E("error", T("TypeError: data")), E("error", T("file write"))}

\* a "file" or "updated" line follows the last "contract" line
SinceLastRecord(out, kind) ==
    \E j \in Events(out, kind) : j > Max(Events(out, "contract"))

\* C8: once writeContractFiles has returned, its file list is the record's
\* file map in order and every listed file is on disk with its text; the entry
\* then saved lists exactly these paths; and when a write throws, part-way or
\* not, main saves nothing for that record.
C8_ManifestListsWhatWasWritten ==
    \A p \in Procs :
        LET r == run[p] IN
        /\ (r.pc \in {"load", "persist", "done"} \/ ImplementationAsked(r)) =>
              /\ r.result.fileList = PathsOf(SourceEntries(r.contractData))
              /\ r.result.fileCount = Len(r.result.fileList)
              /\ FilesOnDisk(r.result.fileList)
        /\ r.pc \in {"load", "persist"} => TextsOnDisk(SourceEntries(r.contractData))
        /\ (r.pc = "done" \/ ImplementationAsked(r)) =>
              /\ Document.ok
              /\ Get(Get(Document.v, r.saveAddress), T("files")) = FilesArray(r.result.fileList)
        /\ (r.pc = "failed" /\ LastLine(r.stdout) \in WriteErrors) =>
              ~SinceLastRecord(r.stdout, "updated")

\* the first file of a record was written and the second was refused
C8_Witness ==
    \E p \in Procs :
        /\ run[p].pc = "failed"
        /\ LastLine(run[p].stdout) = E("error", T("file write"))
        /\ SinceLastRecord(run[p].stdout, "file")

\* both processes ran once, on different addresses, and ended well
BothDone ==
    /\ \A p \in Procs : run[p].pc = "done" /\ run[p].exit = 0 /\ run[p].stage = "single"
    /\ run["p1"].address # run["p2"].address

\* C9, its second half: when one run has ended before the other starts, both
\* addresses have their entry in results.json after the two runs.
C9_SequentialRunsKeepBothEntries ==
    (BothDone /\ ~overlapped) =>
        /\ Document.ok
        /\ {run[p].address : p \in Procs} \subseteq Keys(Document.v)

\* C9, its first half: two runs that overlap both find no results.json, each
\* sets its own entry, and the second write leaves only one of the two entries
\* (here no source file is named as the manifest).
C9_LostUpdate ==
    /\ BothDone /\ overlapped
    /\ \A p \in Procs : run[p].from = "absent" /\ run[p].address \in {AddrC, AddrF}
    /\ Document.ok
    /\ Cardinality(Keys(Document.v)) = 1
    /\ Keys(Document.v) \subseteq {run[p].address : p \in Procs}

\* the SourceCode of the record a run holds
SourceOf(r) == Get(r.contractData, T("SourceCode"))

\* C7: a non-empty SourceCode gives a file map of at least one entry, so that
\* no record is reported as written with zero files and no manifest entry is
\* saved with an empty files list.
C7_NonEmptySourceGivesAFile ==
    \A p \in Procs :
        LET r == run[p]
            sources == parseSourceCode(SourceOf(r), Get(r.contractData, T("ContractName")))
        IN (r.pc # "idle" /\ SourceOf(r).t = "string" /\ SourceOf(r).s # <<>>) =>
              /\ ~sources.throws /\ Len(Entries(sources.v)) >= 1
              /\ r.pc \in {"load", "persist", "done"} => r.result.fileCount >= 1
              /\ r.pc = "done" =>
                    Get(Get(Document.v, r.saveAddress), T("files")) # Arr(<<>>)

\* parseSourceCode takes the text as JSON: it starts with a brace and parses
\* (without its outer braces when doubled)
Structured(sourceCode) ==
    /\ sourceCode.t = "string"
    /\ StartsWith(sourceCode.s, <<C("{")>>)
    /\ JSONParse(IF StartsWith(sourceCode.s, <<C("{"), C("{")>>)
                 THEN Slice1(sourceCode.s) ELSE sourceCode.s).ok

\* C10: when SourceCode parses as JSON and every entry of its file map is a
\* string or an object with a string content, each file is written and holds
\* the content sub-field of an object entry, or the string entry itself, the
\* empty string included.
C10_ContentSubfieldOrEntry ==
    \A p \in Procs :
        LET r == run[p]
            entries == SourceEntries(r.contractData)
            Expected(j) == IF entries[j].v.t = "string"
                           THEN entries[j].v.s
                           ELSE Get(entries[j].v, T("content")).s
        IN (/\ r.pc # "idle"
            /\ Structured(SourceOf(r))
            /\ \A j \in 1..Len(entries) :
                  \/ entries[j].v.t = "string"
                  \/ /\ entries[j].v.t = "object"
                     /\ Get(entries[j].v, T("content")).t = "string") =>
              /\ r.pc = "failed" => LastLine(r.stdout) # E("error", T("TypeError: data"))
              /\ r.pc = "load" =>
                    \A j \in 1..Len(entries) :
                        LET place == PathJoin(OutputDir, entries[j].k) IN
                        /\ place \in DOMAIN disk
                        /\ ~Overwritten(entries, j) => disk[place] = Expected(j)
====
